---- MODULE Spec2Model ----
(***************************************************************************)
(* A model of the cheers-app client: the friendship edges kept in the      *)
(* backend store, the resolution of those edges by each page (Friends,     *)
(* Dashboard, Calendar, Feed, NotificationSystem) and the birthday         *)
(* occurrence arithmetic the pages do on JavaScript Date values.           *)
(*                                                                         *)
(* A JavaScript Date is an instant: a count of ticks on the UTC time line  *)
(* (TicksPerDay ticks per day stand for the 86 400 000 ms of a day).  The  *)
(* browser's timezone tz is a standard offset local - UTC, in ticks, with  *)
(* or without a daylight-saving hour between two Sundays of the year.      *)
(***************************************************************************)
EXTENDS Integers, Sequences, FiniteSets, TLC

VARIABLES
    friendships,        \* store: table friendships, a sequence of edges
    birthdayOf,         \* store: profiles.birthday, user id -> date or NULL
    now,                \* the instant new Date() returns
    tz,                 \* the browser's timezone: [std, dst]
    friends,            \* Friends page state, per signed-in user
    pendingRequests,    \* Friends page state, per signed-in user
    searchQuery,        \* Friends page state, per signed-in user
    searchResults,      \* Friends page state, per signed-in user
    fetched,            \* rows the last successful fetchFriends processed
    searched,           \* rows and lists the last successful searchUsers used
    upcomingBirthdays,  \* Dashboard state
    dashRows,           \* rows the last successful fetchDashboardData processed
    birthdays,          \* Calendar state
    currentDate,        \* Calendar state
    todaysBirthdays,    \* Feed state
    alerts,             \* NotificationSystem: friends named in the two toasts
    loaded,             \* pages whose last fetch took the success path
    loading,            \* Friends page state, per signed-in user
    toasts,             \* Friends page: the toasts the last handler showed
    resolved,           \* users whose Friends page completed a fetchFriends
    viewLoaded,         \* Calendar: birthdays were fetched for currentDate
    user,               \* AuthProvider state: a user or NULL
    profile,            \* AuthProvider state: a profile or NULL
    authLoading,        \* AuthProvider state: loading
    sessionPending,     \* AuthProvider: the getSession promise is unresolved
    profileFetches,     \* AuthProvider: the fetchProfile calls in flight
    authEvents,         \* the number of auth state change events so far
    pageLoading,        \* the loading flag of each data page
    effectDue,          \* the pages whose loading effect has to run
    pageFetch,          \* the pages whose fetch is in flight
    searchInFlight,     \* Friends page: the searchUsers calls in flight
    resultsFor,         \* Friends page: the query searchResults answers
    events,             \* store: table events
    eventInvitations,   \* store: table event_invitations
    newEvent,           \* Events page state: the form of the create dialog
    eventToast,         \* Events page: the toast createEvent showed last
    greetingMessages,   \* Feed state: the greeting draft of each friend
    greetInFlight,      \* Feed: the sendBirthdayGreeting calls in flight
    greetingsTable,     \* store: table birthday_greetings
    greetToast,         \* Feed: the toast sendBirthdayGreeting showed last
    formBirthday,       \* Profile form: the value of the birthday field
    pickedDate,         \* the calendar date last picked in the Profile form
    profileToast        \* the toast updateProfile showed last

vars == << friendships, birthdayOf, now, tz, friends, pendingRequests,
           searchQuery, searchResults, fetched, searched, upcomingBirthdays,
           dashRows, birthdays, currentDate, todaysBirthdays, alerts,
           loaded, loading, toasts, resolved, viewLoaded, user, profile,
           authLoading, sessionPending, profileFetches, authEvents, pageLoading,
           effectDue, pageFetch, searchInFlight, resultsFor, events,
           eventInvitations, newEvent, eventToast, greetingMessages,
           greetInFlight, greetingsTable, greetToast, formBirthday, pickedDate,
           profileToast >>

storeVars   == << friendships, birthdayOf >>
clockVars   == << now, tz >>
friendsVars == << friends, pendingRequests, searchQuery, searchResults,
                  fetched, searched, loading, toasts, resolved >>
bdayVars    == << upcomingBirthdays, dashRows, birthdays, currentDate,
                  todaysBirthdays, alerts, viewLoaded >>
authVars    == << user, profile, authLoading, sessionPending, profileFetches,
                  authEvents >>
pageVars    == << pageLoading, effectDue, pageFetch >>
\* the state outside the friends and birthday pages
searchVars  == << searchInFlight, resultsFor >>
eventVars   == << events, eventInvitations, newEvent, eventToast >>
greetVars   == << greetingMessages, greetInFlight, greetingsTable, greetToast >>
formVars    == << formBirthday, pickedDate, profileToast >>
otherVars   == << authVars, pageVars, searchVars, eventVars, greetVars, formVars >>
\* the state of the friends and birthday pages, the store and the clock
coreVars    == << storeVars, clockVars, friendsVars, bdayVars, loaded >>
\* what the actions of AuthProvider and of the loading effects leave alone
outsideAuth == << coreVars, searchVars, eventVars, greetVars, formVars >>
\* what the search of the Friends page leaves alone
outsideSearch == << storeVars, clockVars, bdayVars, loaded, authVars, pageVars,
                    eventVars, greetVars, formVars >>
\* what the Events page, the greetings of the Feed and the Profile form leave alone
outsideEvents == << coreVars, authVars, pageVars, searchVars, greetVars, formVars >>
outsideGreetings == << coreVars, authVars, pageVars, searchVars, eventVars, formVars >>
outsideProfile == << friendships, clockVars, friendsVars, bdayVars, loaded, authVars,
                     pageVars, searchVars, eventVars, greetVars >>

\* JavaScript null, where a record (a profile, a date) is expected
NULL == [null |-> TRUE]

(***************************************************************************)
(* Bounds                                                                  *)
(***************************************************************************)
TicksPerHour == 2       \* resolution of the time of day
NumFriends  == 6        \* friends of the viewer in the upcoming-list runs
MaxEdges    == 2        \* rows of the friendships table in the Friends runs
MaxMonths   == 3        \* months the Calendar is moved away from today
MaxAuthEvents == 3      \* auth state change events of a run
MaxEvents   == 2        \* rows of the events table
MaxGreetings == 2       \* rows of the birthday_greetings table

(***************************************************************************)
(* Calendar arithmetic of the JavaScript Date object                       *)
(***************************************************************************)
IsLeap(y) == (y % 4 = 0 /\ y % 100 # 0) \/ y % 400 = 0

DaysInMonth(y, m) ==
    IF m = 2 THEN (IF IsLeap(y) THEN 29 ELSE 28)
    ELSE IF m \in {4, 6, 9, 11} THEN 30 ELSE 31

\* days of a common year before the first of each month
CumulativeDays == << 0, 31, 59, 90, 120, 151, 181, 212, 243, 273, 304, 334 >>

DaysBeforeMonth(y, m) ==
    CumulativeDays[m] + (IF m > 2 /\ IsLeap(y) THEN 1 ELSE 0)

\* days from 0000-01-01 (proleptic Gregorian) to y-01-01
DaysBeforeYear(y) ==
    365 * y + ((y + 3) \div 4) - ((y + 99) \div 100) + ((y + 399) \div 400)

\* Day number of year y, month m (1..12), day d; d may exceed the month's
\* length, and then runs on into the next month as the Date constructor does.
DayNum(y, m, d) == DaysBeforeYear(y) + DaysBeforeMonth(y, m) + d - 1

YearOfDay(n) ==
    LET e == (n * 400) \div 146097
    IN IF DaysBeforeYear(e + 1) <= n THEN e + 1
       ELSE IF DaysBeforeYear(e) <= n THEN e
       ELSE e - 1

MonthOfDay(n) ==
    LET y == YearOfDay(n)
        k == n - DaysBeforeYear(y)
    IN CHOOSE m \in 1 .. 12 :
         DaysBeforeMonth(y, m) <= k /\ k < DaysBeforeMonth(y, m) + DaysInMonth(y, m)

DateOfDay(n) ==
    LET y == YearOfDay(n)
        m == MonthOfDay(n)
    IN [y |-> y, m |-> m, d |-> n - DaysBeforeYear(y) - DaysBeforeMonth(y, m) + 1]

FloorDiv(a, b) == IF a >= 0 THEN a \div b ELSE -((-a + b - 1) \div b)
MathCeil(a, b) == -FloorDiv(-a, b)          \* Math.ceil(a / b), b > 0

TicksPerDay == 24 * TicksPerHour

\* day of the week of day number n, 0 for Sunday
Weekday(n) == (n + 6) % 7

FirstSunday(y, m) ==
    LET f == DayNum(y, m, 1) IN f + ((7 - Weekday(f)) % 7)

\* Daylight saving time of a zone that has it: from 02:00 standard time of the
\* second Sunday of March to 02:00 daylight time of the first Sunday of
\* November
DstBegin(y) == (FirstSunday(y, 3) + 7) * TicksPerDay + 2 * TicksPerHour - tz.std
DstEnd(y)   == FirstSunday(y, 11) * TicksPerDay + TicksPerHour - tz.std

\* local - UTC at instant t
Offset(t) ==
    LET y == YearOfDay(FloorDiv(t + tz.std, TicksPerDay))
    IN IF tz.dst /\ DstBegin(y) <= t /\ t < DstEnd(y)
       THEN tz.std + TicksPerHour
       ELSE tz.std

\* The instant of a local wall-clock time w: the daylight reading where it
\* is valid (the earlier instant of a repeated hour), else the standard one
InstantOfLocal(w) ==
    LET a == w - (tz.std + TicksPerHour)
    IN IF tz.dst /\ Offset(a) = tz.std + TicksPerHour THEN a ELSE w - tz.std

\* local calendar day and time of day of instant t
LocalDay(t)  == FloorDiv(t + Offset(t), TicksPerDay)
LocalTime(t) == (t + Offset(t)) - LocalDay(t) * TicksPerDay

getFullYear(t) == YearOfDay(LocalDay(t))
getMonth(t)    == MonthOfDay(LocalDay(t))         \* 1..12 where JS has 0..11
getDate(t)     == DateOfDay(LocalDay(t)).d

\* new Date(y, m, d): local midnight
NewDateLocal(y, m, d) == InstantOfLocal(DayNum(y, m, d) * TicksPerDay)
\* new Date('YYYY-MM-DD'): a date-only ISO string is UTC midnight
NewDateFromString(b) == DayNum(b.y, b.m, b.d) * TicksPerDay
\* date-fns parseISO('YYYY-MM-DD'): local midnight
parseISO(b) == InstantOfLocal(DayNum(b.y, b.m, b.d) * TicksPerDay)
\* Date.prototype.setFullYear(y), also date-fns setYear: the local month, day
\* and time are kept and the result is normalised again
setFullYear(t, y) ==
    InstantOfLocal(DayNum(y, getMonth(t), getDate(t)) * TicksPerDay + LocalTime(t))
isBefore(a, b) == a < b
\* `${month}-${day}` with both padded to two digits: the pair decides equality
MonthDayString(t) == << getMonth(t), getDate(t) >>

(***************************************************************************)
(* The store and its queries                                               *)
(***************************************************************************)
Viewer == 1             \* the signed-in user of the birthday pages
FUsers == { 1, 2 }      \* the users with a Friends page open

Edge(i, r, a, st) ==
    [id |-> i, requester_id |-> r, addressee_id |-> a, status |-> st]

\* the mark of a user whose profiles row the embedded select does not return
NoProfile == [missing |-> TRUE]

\* a row of profiles, as the embedded select returns it: null when there is
\* none to return
ProfileOf(u) ==
    IF birthdayOf[u] = NoProfile THEN NULL
    ELSE [id |-> u, birthday |-> birthdayOf[u]]

\* a row of friendships with requester:profiles!... and addressee:profiles!...
Joined(e) ==
    [id |-> e.id, requester_id |-> e.requester_id, addressee_id |-> e.addressee_id,
     status |-> e.status,
     requester |-> ProfileOf(e.requester_id), addressee |-> ProfileOf(e.addressee_id)]

MapSeq(s, F(_)) == [i \in 1 .. Len(s) |-> F(s[i])]

\* Array.prototype.slice(0, n)
Slice(s, n) == SubSeq(s, 1, IF Len(s) < n THEN Len(s) ELSE n)

Ids(s) == { s[i].id : i \in 1 .. Len(s) }

FriendshipIds(s) == { s[i].friendship_id : i \in 1 .. Len(s) }

\* .or(`requester_id.eq.${v},addressee_id.eq.${v}`) on the table as it stands
FriendshipsIn(table, v) ==
    MapSeq(SelectSeq(table, LAMBDA e : e.requester_id = v \/ e.addressee_id = v),
           Joined)

FriendshipsOf(v) == FriendshipsIn(friendships, v)

\* ... .eq('status', 'accepted')
AcceptedFriendshipsOf(v) ==
    SelectSeq(FriendshipsOf(v), LAMBDA r : r.status = "accepted")

(***************************************************************************)
(* Friends: fetchFriends                                                   *)
(***************************************************************************)
\* isRequester of one row
IsRequester(v, friendship) == friendship.requester_id = v

\* friendData taken from the viewer's own end of the row
FriendDataOwnEnd(v, friendship) ==
    LET isRequester   == friendship.requester_id = v
        friendProfile == IF isRequester THEN friendship.requester
                         ELSE friendship.addressee
    IN [id |-> friendProfile.id, birthday |-> friendProfile.birthday,
        status |-> friendship.status, friendship_id |-> friendship.id,
        is_requester |-> isRequester]

\* friendData of one row
FriendData(v, friendship) ==
    LET isRequester   == IsRequester(v, friendship)
        friendProfile == IF isRequester THEN friendship.addressee
                         ELSE friendship.requester
    IN [id |-> friendProfile.id, birthday |-> friendProfile.birthday,
        status |-> friendship.status, friendship_id |-> friendship.id,
        is_requester |-> isRequester]

\* processedFriends after the forEach over the rows
RECURSIVE ProcessedFriends(_, _)
ProcessedFriends(v, rows) ==
    IF rows = << >> THEN << >>
    ELSE LET before == ProcessedFriends(v, SubSeq(rows, 1, Len(rows) - 1))
             last   == rows[Len(rows)]
         IN IF last.status = "accepted"
            THEN Append(before, FriendData(v, last)) ELSE before

\* processedPending were every row that is not accepted pushed to it
RECURSIVE ProcessedPendingKeepsDeclined(_, _)
ProcessedPendingKeepsDeclined(v, rows) ==
    IF rows = << >> THEN << >>
    ELSE LET before == ProcessedPendingKeepsDeclined(v, SubSeq(rows, 1, Len(rows) - 1))
             last   == rows[Len(rows)]
         IN IF last.status = "accepted" THEN before
            ELSE Append(before, FriendData(v, last))

\* processedPending after the forEach over the rows
RECURSIVE ProcessedPending(_, _)
ProcessedPending(v, rows) ==
    IF rows = << >> THEN << >>
    ELSE LET before == ProcessedPending(v, SubSeq(rows, 1, Len(rows) - 1))
             last   == rows[Len(rows)]
         IN IF last.status = "accepted" THEN before
            ELSE IF last.status = "pending"
            THEN Append(before, FriendData(v, last)) ELSE before

\* the counterpart profile the forEach reads from one row
FriendProfile(v, friendship) ==
    IF IsRequester(v, friendship) THEN friendship.addressee ELSE friendship.requester

\* friendProfile.id of some row throws a TypeError
Throws(v, rows) == \E i \in 1 .. Len(rows) : FriendProfile(v, rows[i]) = NULL

\* the titles and descriptions of the toasts of the Friends page
ToastLoadFailed    == "Failed to load friends. Please try again."
ToastSent          == "Friend request sent!"
ToastSendFailed    == "Failed to send friend request. Please try again."
ToastAccepted      == "Friend request accepted!"
ToastDeclined      == "Friend request declined"
ToastRespondFailed == "Failed to respond to friend request. Please try again."

\* the forEach over the rows given and the two setters, in a handler of user
\* u that has shown the toasts in shown so far
ResolveOk(u, rows, shown) ==
    /\ ~Throws(u, rows)
    /\ fetched' = [fetched EXCEPT ![u] = rows]
    /\ friends' = [friends EXCEPT ![u] = ProcessedFriends(u, rows)]
    /\ pendingRequests' = [pendingRequests EXCEPT ![u] = ProcessedPending(u, rows)]
    /\ resolved' = resolved \cup {u}
    /\ toasts' = shown
    /\ loading' = [loading EXCEPT ![u] = FALSE]

\* the state fetchFriends leaves for user u when its query on the table, as
\* it stands when the query runs, succeeds
FetchFriendsOk(u, table, shown) == ResolveOk(u, FriendshipsIn(table, u), shown)

\* catch and finally: the query failed, or the forEach threw
FetchFriendsFailed(u, shown) ==
    /\ UNCHANGED << fetched, friends, pendingRequests, resolved >>
    /\ toasts' = Append(shown, ToastLoadFailed)
    /\ loading' = [loading EXCEPT ![u] = FALSE]

fetchFriends(u) ==
    /\ \/ FetchFriendsOk(u, friendships, << >>)
       \/ FetchFriendsFailed(u, << >>)
    /\ UNCHANGED << storeVars, clockVars, otherVars, searchQuery, searchResults, searched,
                    bdayVars, loaded >>

\* the same forEach over a response that was not selected by the user's id
resolveEdges(u) ==
    /\ \/ ResolveOk(u, MapSeq(friendships, Joined), << >>)
       \/ /\ Throws(u, MapSeq(friendships, Joined))
          /\ FetchFriendsFailed(u, << >>)
    /\ UNCHANGED << storeVars, clockVars, otherVars, searchQuery, searchResults, searched,
                    bdayVars, loaded >>

\* the requests tab, were every pending request given the two buttons
IncomingRequestsUnfiltered(u) == pendingRequests[u]

\* the two lists of the requests tab
IncomingRequests(u) == SelectSeq(pendingRequests[u], LAMBDA r : ~r.is_requester)
SentRequests(u)     == SelectSeq(pendingRequests[u], LAMBDA r : r.is_requester)

(***************************************************************************)
(* Friends: searchUsers, sendFriendRequest, respondToFriendRequest         *)
(***************************************************************************)
People == { 1, 2, 3, 4 }

\* profiles.full_name and profiles.email, as sequences of characters
FullName(u) ==
    CASE u = 1 -> << "a", "n", "n" >>
      [] u = 2 -> << "a", "n", "n", "a" >>
      [] u = 3 -> << "h", "a", "n", "n", "a" >>
      [] OTHER -> << "b", "o", "b" >>

Email(u) ==
    CASE u = 4 -> << "a", "n", "n", "4" >>
      [] OTHER -> << "u", "@" >>

\* the texts the search box is given
Queries == { << >>, << "a", "n" >>, << "a", "n", "n" >> }

\* x ilike %q%
ILike(x, q) ==
    \E i \in 0 .. Len(x) - Len(q) : SubSeq(x, i + 1, i + Len(q)) = q

SearchLimit == 10

RECURSIVE SeqOfSet(_)
SeqOfSet(S) ==
    IF S = {} THEN << >>
    ELSE LET m == CHOOSE x \in S : \A z \in S : x <= z
         IN << m >> \o SeqOfSet(S \ {m})

\* from('profiles').select(...).neq('id', v).or(full_name ilike, email ilike).limit(10)
SearchProfiles(v, q) ==
    Slice(MapSeq(SeqOfSet({ p \in People :
                              /\ p # v
                              /\ ILike(FullName(p), q) \/ ILike(Email(p), q) }),
                 ProfileOf),
          SearchLimit)

\* the candidates kept whatever the viewer's connections
FilteredUsersUnfiltered(users, friendsList, pendingList) == users

\* filteredUsers: the users not among existingConnections
FilteredUsers(users, friendsList, pendingList) ==
    LET existingConnections == MapSeq(friendsList \o pendingList, LAMBDA f : f.id)
    IN SelectSeq(users, LAMBDA usr :
                   ~(\E i \in 1 .. Len(existingConnections) :
                        existingConnections[i] = usr.id))

NoSearch == [ran |-> FALSE, users |-> << >>, friends |-> << >>, pending |-> << >>,
             resolved |-> FALSE]

\* onChange of the search box and the effect on searchQuery that follows
setSearchQuery(u, q) ==
    /\ ~loading[u]
    /\ q # searchQuery[u]
    /\ searchQuery' = [searchQuery EXCEPT ![u] = q]
    /\ IF Len(q) > 2
       THEN \/ /\ searchResults' =
                    [searchResults EXCEPT ![u] =
                        FilteredUsers(SearchProfiles(u, q), friends[u], pendingRequests[u])]
               /\ searched' = [searched EXCEPT ![u] =
                                 [ran |-> TRUE, users |-> SearchProfiles(u, q),
                                  friends |-> friends[u],
                                  pending |-> pendingRequests[u],
                                  resolved |-> u \in resolved]]
            \/ UNCHANGED << searchResults, searched >>      \* the query failed
       ELSE /\ searchResults' = [searchResults EXCEPT ![u] = << >>]
            /\ searched' = [searched EXCEPT ![u] = NoSearch]
    /\ toasts' = << >>
    /\ UNCHANGED << storeVars, clockVars, otherVars, friends, pendingRequests, fetched,
                    loading, resolved, bdayVars, loaded >>

\* the table a refetch reads, were it read before the write
SnapshotBeforeWrite(before, after) == before

\* the table a refetch reads: fetchFriends is called after the awaited write
Snapshot(before, after) == after

\* click on Add Friend of a search result
sendFriendRequest(u, userId) ==
    /\ ~loading[u]
    /\ userId \in Ids(searchResults[u])
    /\ Len(friendships) < MaxEdges
    /\ \/ LET table == Append(friendships,
                              Edge(Len(friendships) + 1, u, userId, "pending"))
          IN /\ friendships' = table
             /\ \/ FetchFriendsOk(u, Snapshot(friendships, table), << ToastSent >>)
                \/ FetchFriendsFailed(u, << ToastSent >>)
             /\ searchQuery' = [searchQuery EXCEPT ![u] = << >>]
             /\ searchResults' = [searchResults EXCEPT ![u] = << >>]
             /\ searched' = [searched EXCEPT ![u] = NoSearch]
       \/ /\ toasts' = << ToastSendFailed >>  \* the insert failed
          /\ UNCHANGED << friendships, friends, pendingRequests, searchQuery,
                          searchResults, fetched, searched, loading, resolved >>
    /\ UNCHANGED << birthdayOf, clockVars, otherVars, bdayVars, loaded >>

\* .update({ status }).eq('id', friendshipId)
UpdateStatus(table, friendshipId, st) ==
    [i \in 1 .. Len(table) |->
        IF table[i].id = friendshipId THEN [table[i] EXCEPT !.status = st]
        ELSE table[i]]

\* click on Accept or Decline of an incoming request
respondToFriendRequest(u, friendshipId, action) ==
    /\ ~loading[u]
    /\ friendshipId \in FriendshipIds(IncomingRequests(u))
    /\ \/ LET table == UpdateStatus(friendships, friendshipId,
                                    IF action = "accept" THEN "accepted" ELSE "declined")
              shown == << IF action = "accept" THEN ToastAccepted ELSE ToastDeclined >>
          IN /\ friendships' = table
             /\ \/ FetchFriendsOk(u, Snapshot(friendships, table), shown)
                \/ FetchFriendsFailed(u, shown)
       \/ /\ toasts' = << ToastRespondFailed >>   \* failed
          /\ UNCHANGED << friendships, fetched, friends, pendingRequests, loading,
                          resolved >>
    /\ UNCHANGED << birthdayOf, clockVars, otherVars, searchQuery, searchResults, searched,
                    bdayVars, loaded >>

(***************************************************************************)
(* Friends: the search effect and searchUsers, request and response apart  *)
(***************************************************************************)
SearchQueries == Queries \cup { << "a", "n", "n", "a" >> }

\* onChange of the search box and the effect on searchQuery: searchUsers is
\* called with the lists of the render, or the results are cleared
typeQuery(q) ==
    /\ ~loading[Viewer]
    /\ q # searchQuery[Viewer]
    /\ searchQuery' = [searchQuery EXCEPT ![Viewer] = q]
    /\ IF Len(q) > 2
       THEN /\ searchInFlight' = searchInFlight \cup
                  {[query |-> q, friends |-> friends[Viewer],
                    pending |-> pendingRequests[Viewer]]}
            /\ UNCHANGED << searchResults, resultsFor >>
       ELSE /\ searchResults' = [searchResults EXCEPT ![Viewer] = << >>]
            /\ resultsFor' = << >>
            /\ UNCHANGED searchInFlight
    /\ UNCHANGED << friends, pendingRequests, fetched, searched, loading, toasts,
                    resolved, outsideSearch >>

\* the response to the profiles query of a searchUsers call for query q
searchResponse(q) ==
    \E call \in searchInFlight :
       /\ call.query = q
       /\ searchInFlight' = searchInFlight \ {call}
       /\ \/ /\ searchResults' =
                   [searchResults EXCEPT ![Viewer] =
                       FilteredUsers(SearchProfiles(Viewer, q), call.friends,
                                     call.pending)]
             /\ resultsFor' = q
          \/ UNCHANGED << searchResults, resultsFor >>  \* error: console.error only
       /\ UNCHANGED << friends, pendingRequests, searchQuery, fetched, searched,
                       loading, toasts, resolved, outsideSearch >>

SearchInit ==
    /\ searchInFlight = {}
    /\ resultsFor = << >>

(***************************************************************************)
(* Dashboard: fetchDashboardData                                           *)
(***************************************************************************)
Limit == 5

DashboardFriendProfiles(v, rows) ==
    SelectSeq(MapSeq(rows, LAMBDA f : IF f.requester_id = v THEN f.addressee
                                      ELSE f.requester),
              LAMBDA p : p # NULL /\ p.birthday # NULL)

\* the local variable nextBirthday for a birthday string b
NextBirthday(b) ==
    LET birthday == parseISO(b)
        today    == now
        thisYear == getFullYear(today)
        nextBirthday == NewDateLocal(thisYear, getMonth(birthday), getDate(birthday))
    IN IF isBefore(nextBirthday, today)
       THEN setFullYear(nextBirthday, thisYear + 1)
       ELSE nextBirthday

DaysUntil(b) == MathCeil(NextBirthday(b) - now, TicksPerDay)

UpcomingEntry(p) ==
    [id |-> p.id, birthday |-> p.birthday, daysUntil |-> DaysUntil(p.birthday)]

\* an insertion that puts x before the entries with the same daysUntil
RECURSIVE InsertBeforeTies(_, _)
InsertBeforeTies(s, x) ==
    IF s = << >> THEN << x >>
    ELSE IF s[Len(s)].daysUntil < x.daysUntil THEN Append(s, x)
    ELSE Append(InsertBeforeTies(SubSeq(s, 1, Len(s) - 1), x), s[Len(s)])

\* Array.prototype.sort((a, b) => a.daysUntil - b.daysUntil): a stable sort
RECURSIVE InsertByDaysUntil(_, _)
InsertByDaysUntil(s, x) ==
    IF s = << >> THEN << x >>
    ELSE IF s[Len(s)].daysUntil <= x.daysUntil THEN Append(s, x)
    ELSE Append(InsertByDaysUntil(SubSeq(s, 1, Len(s) - 1), x), s[Len(s)])

RECURSIVE SortByDaysUntil(_)
SortByDaysUntil(s) ==
    IF s = << >> THEN << >>
    ELSE InsertByDaysUntil(SortByDaysUntil(SubSeq(s, 1, Len(s) - 1)), s[Len(s)])

\* the list cut to the limit before it is sorted
UpcomingBdaysCutFirst(v, rows) ==
    SortByDaysUntil(Slice(MapSeq(DashboardFriendProfiles(v, rows), UpcomingEntry),
                          Limit))

UpcomingBdays(v, rows) ==
    Slice(SortByDaysUntil(MapSeq(DashboardFriendProfiles(v, rows), UpcomingEntry)),
          Limit)

fetchDashboardData ==
    /\ \/ /\ dashRows' = AcceptedFriendshipsOf(Viewer)
          /\ upcomingBirthdays' = UpcomingBdays(Viewer, AcceptedFriendshipsOf(Viewer))
          /\ loaded' = loaded \cup {"dashboard"}
       \/ UNCHANGED << dashRows, upcomingBirthdays, loaded >>   \* the query failed
    /\ UNCHANGED << storeVars, clockVars, otherVars, friendsVars, birthdays, currentDate,
                    todaysBirthdays, alerts, viewLoaded >>

(***************************************************************************)
(* Calendar: fetchBirthdays                                                *)
(***************************************************************************)
getYear(t) == getFullYear(t)
setYear(t, y) == setFullYear(t, y)

CalendarFriend(v, friendship) ==
    IF friendship.requester_id = v THEN friendship.addressee ELSE friendship.requester

\* the event moved on to the following year once its date is before now
BirthdayEventRolled(friend, currentYear) ==
    LET thisYear == setYear(parseISO(friend.birthday), currentYear)
    IN [id |-> friend.id, birthday |-> friend.birthday,
        actualDate |-> IF isBefore(thisYear, now)
                       THEN setYear(thisYear, currentYear + 1) ELSE thisYear]

BirthdayEvent(friend, currentYear) ==
    [id |-> friend.id, birthday |-> friend.birthday,
     actualDate |-> setYear(parseISO(friend.birthday), currentYear)]

RECURSIVE ProcessedBirthdays(_, _, _)
ProcessedBirthdays(v, rows, currentYear) ==
    IF rows = << >> THEN << >>
    ELSE LET friend == CalendarFriend(v, rows[Len(rows)])
             before == ProcessedBirthdays(v, SubSeq(rows, 1, Len(rows) - 1), currentYear)
         IN IF friend # NULL /\ friend.birthday # NULL
            THEN Append(before, BirthdayEvent(friend, currentYear))
            ELSE before

\* the try block of fetchBirthdays, run by the effect for the date shown
FetchBirthdaysOk(shown) ==
    /\ birthdays' = ProcessedBirthdays(Viewer, AcceptedFriendshipsOf(Viewer),
                                       getYear(shown))
    /\ loaded' = loaded \cup {"calendar"}
    /\ viewLoaded' = TRUE

fetchBirthdays ==
    /\ \/ FetchBirthdaysOk(currentDate)
       \/ UNCHANGED << birthdays, loaded, viewLoaded >>   \* the query failed
    /\ UNCHANGED << storeVars, clockVars, otherVars, friendsVars, upcomingBirthdays, dashRows,
                    currentDate, todaysBirthdays, alerts >>

(***************************************************************************)
(* Calendar: the month shown, its cells and its list                       *)
(***************************************************************************)
\* date-fns isSameDay, isSameMonth: the local calendar fields are compared
isSameDay(a, b)   == LocalDay(a) = LocalDay(b)
isSameMonth(a, b) == getFullYear(a) = getFullYear(b) /\ getMonth(a) = getMonth(b)

\* months since year 0 of the local month of instant t
MonthIndex(t) == getFullYear(t) * 12 + getMonth(t) - 1

\* date-fns addMonths: the day of the month is kept, or cut to the last day
\* of the target month; the time of day is kept
addMonths(t, n) ==
    LET k    == MonthIndex(t) + n
        y    == k \div 12
        m    == (k % 12) + 1
        last == DaysInMonth(y, m)
        d    == IF getDate(t) >= last THEN last ELSE getDate(t)
    IN InstantOfLocal(DayNum(y, m, d) * TicksPerDay + LocalTime(t))

subMonths(t, n) == addMonths(t, -n)

\* startOfMonth, endOfMonth, startOfWeek (Sunday), endOfWeek, as day numbers
StartOfMonthDay(t) == DayNum(getFullYear(t), getMonth(t), 1)
EndOfMonthDay(t) ==
    DayNum(getFullYear(t), getMonth(t), DaysInMonth(getFullYear(t), getMonth(t)))
StartOfWeekDay(n) == n - Weekday(n)
EndOfWeekDay(n)   == n + (6 - Weekday(n))

\* calendarDays: the cells of the grid, each a local midnight
CalendarDays ==
    { InstantOfLocal(n * TicksPerDay) :
        n \in StartOfWeekDay(StartOfMonthDay(currentDate)) ..
              EndOfWeekDay(EndOfMonthDay(currentDate)) }

getBirthdaysForDay(day) ==
    SelectSeq(birthdays, LAMBDA birthday : isSameDay(birthday.actualDate, day))

\* .sort((a, b) => a.actualDate.getDate() - b.actualDate.getDate())
RECURSIVE InsertByDate(_, _)
InsertByDate(s, x) ==
    IF s = << >> THEN << x >>
    ELSE IF getDate(s[Len(s)].actualDate) <= getDate(x.actualDate) THEN Append(s, x)
    ELSE Append(InsertByDate(SubSeq(s, 1, Len(s) - 1), x), s[Len(s)])

RECURSIVE SortByDate(_)
SortByDate(s) ==
    IF s = << >> THEN << >>
    ELSE InsertByDate(SortByDate(SubSeq(s, 1, Len(s) - 1)), s[Len(s)])

\* the month list without its filter
MonthBirthdaysUnfiltered == SortByDate(birthdays)

\* monthBirthdays of the render
MonthBirthdays ==
    SortByDate(SelectSeq(birthdays, LAMBDA birthday :
                           isSameMonth(birthday.actualDate, currentDate)))

\* the badges of one card, were Past shown without regard to isToday
BadgesPastUnguarded(birthday) ==
    LET isPast  == birthday.actualDate < now
        isToday == isSameDay(birthday.actualDate, now)
    IN (IF isToday THEN {"Today"} ELSE {})
       \cup (IF isPast THEN {"Past"} ELSE {})
       \cup (IF ~isPast /\ ~isToday THEN {"Upcoming"} ELSE {})

\* the badges of one card of the month list
Badges(birthday) ==
    LET isPast  == birthday.actualDate < now
        isToday == isSameDay(birthday.actualDate, now)
    IN (IF isToday THEN {"Today"} ELSE {})
       \cup (IF isPast /\ ~isToday THEN {"Past"} ELSE {})
       \cup (IF ~isPast /\ ~isToday THEN {"Upcoming"} ELSE {})

\* the effect on currentDate, run for the date now shown
ShowMonth(shown) ==
    /\ \/ FetchBirthdaysOk(shown)
       \/ /\ UNCHANGED << birthdays, loaded >>          \* the query failed
          /\ viewLoaded' = FALSE
    /\ UNCHANGED << storeVars, clockVars, otherVars, friendsVars, upcomingBirthdays, dashRows,
                    todaysBirthdays, alerts >>

nextMonth ==
    /\ MonthIndex(currentDate) - MonthIndex(now) < MaxMonths
    /\ currentDate' = addMonths(currentDate, 1)
    /\ ShowMonth(addMonths(currentDate, 1))

prevMonth ==
    /\ MonthIndex(now) - MonthIndex(currentDate) < MaxMonths
    /\ currentDate' = subMonths(currentDate, 1)
    /\ ShowMonth(subMonths(currentDate, 1))

goToToday ==
    /\ currentDate' = now
    /\ ShowMonth(now)

(***************************************************************************)
(* Feed: fetchTodaysBirthdays                                              *)
(***************************************************************************)
FeedFriendsList(v, rows) ==
    MapSeq(rows, LAMBDA friendship : IF friendship.requester_id = v
                                     THEN friendship.addressee
                                     ELSE friendship.requester)

\* the match without the guard: new Date(null) is 1970-01-01T00:00Z
FeedIsBirthdayTodayUnguarded(friend) ==
    MonthDayString(NewDateFromString(IF friend.birthday = NULL
                                     THEN [y |-> 1970, m |-> 1, d |-> 1]
                                     ELSE friend.birthday)) = MonthDayString(now)

FeedIsBirthdayToday(friend) ==
    IF friend.birthday = NULL THEN FALSE
    ELSE MonthDayString(NewDateFromString(friend.birthday)) = MonthDayString(now)

BirthdayFriends(v, rows) == SelectSeq(FeedFriendsList(v, rows), FeedIsBirthdayToday)

\* friend.birthday of some entry of the list throws a TypeError
NullFriend(friendsList) == \E i \in 1 .. Len(friendsList) : friendsList[i] = NULL

fetchTodaysBirthdays ==
    /\ \/ /\ ~NullFriend(FeedFriendsList(Viewer, AcceptedFriendshipsOf(Viewer)))
          /\ todaysBirthdays' = BirthdayFriends(Viewer, AcceptedFriendshipsOf(Viewer))
          /\ loaded' = loaded \cup {"feed"}
       \/ UNCHANGED << todaysBirthdays, loaded >>   \* the query failed, or a throw
    /\ UNCHANGED << storeVars, clockVars, otherVars, friendsVars, upcomingBirthdays, dashRows,
                    birthdays, currentDate, alerts, viewLoaded >>

(***************************************************************************)
(* NotificationSystem: checkBirthdayNotifications                          *)
(***************************************************************************)
NotifyFriendsList(v, rows) ==
    MapSeq(rows, LAMBDA friendship : IF friendship.requester_id = v
                                     THEN friendship.addressee
                                     ELSE friendship.requester)

\* d.setDate(d.getDate() + n)
AddDays(t, n) == InstantOfLocal(t + Offset(t) + n * TicksPerDay)

NotifyMatches(friend, day) ==
    IF friend.birthday = NULL THEN FALSE
    ELSE MonthDayString(NewDateFromString(friend.birthday)) = MonthDayString(day)

checkBirthdayNotifications ==
    /\ \/ LET friendsList == NotifyFriendsList(Viewer, AcceptedFriendshipsOf(Viewer))
              today       == now
              nextWeek    == AddDays(now, 7)
          IN /\ ~NullFriend(friendsList)
             /\ alerts' =
                  [today    |-> SelectSeq(friendsList, LAMBDA f : NotifyMatches(f, today)),
                   nextWeek |-> SelectSeq(friendsList, LAMBDA f : NotifyMatches(f, nextWeek))]
             /\ loaded' = loaded \cup {"notifications"}
       \/ UNCHANGED << alerts, loaded >>       \* the query failed, or a throw
    /\ UNCHANGED << storeVars, clockVars, otherVars, friendsVars, upcomingBirthdays, dashRows,
                    birthdays, currentDate, todaysBirthdays, viewLoaded >>

(***************************************************************************)
(* AuthProvider: getSession, onAuthStateChange, fetchProfile               *)
(***************************************************************************)
AuthUsers == { 1, 2 }

\* session?.user ?? null, for the sessions an event may carry
SessionUsers == { [id |-> u] : u \in AuthUsers } \cup {NULL}

\* why fetchProfile was called: by the getSession callback, or by the auth
\* listener, which awaits it before setLoading(false)
Callers == { "getSession", "onAuthStateChange" }
ProfileFetchChoices == [userId : AuthUsers, caller : Callers]

\* the dependency of each page's loading effect
Pages == { "Friends", "Calendar", "Events", "Feed" }
Dep(p) == IF p \in { "Friends", "Calendar" } THEN profile ELSE user

\* React re-runs the effect of every page whose dependency changed
EffectsAfterRender ==
    /\ effectDue' = [p \in Pages |-> effectDue[p] \/ Dep(p)' # Dep(p)]
    /\ UNCHANGED << pageLoading, pageFetch >>

\* supabase.auth.getSession().then(...): fetchProfile is called, not awaited
getSessionResolved(s) ==
    /\ sessionPending
    /\ sessionPending' = FALSE
    /\ user' = s
    /\ profileFetches' = IF s # NULL
                         THEN profileFetches \cup {[userId |-> s.id, caller |-> "getSession"]}
                         ELSE profileFetches
    /\ authLoading' = FALSE
    /\ UNCHANGED << profile, authEvents >>
    /\ EffectsAfterRender
    /\ UNCHANGED outsideAuth

\* the listener of onAuthStateChange, up to its await of fetchProfile
onAuthStateChange(s) ==
    /\ authEvents < MaxAuthEvents
    /\ authEvents' = authEvents + 1
    /\ user' = s
    /\ IF s # NULL
       THEN /\ profileFetches' =
                  profileFetches \cup {[userId |-> s.id, caller |-> "onAuthStateChange"]}
            /\ UNCHANGED << profile, authLoading >>
       ELSE /\ profile' = NULL
            /\ authLoading' = FALSE
            /\ UNCHANGED profileFetches
    /\ UNCHANGED sessionPending
    /\ EffectsAfterRender
    /\ UNCHANGED outsideAuth

\* the response to the query of fetchProfile, and what its caller does next
fetchProfileReturns(f) ==
    /\ f \in profileFetches
    /\ profileFetches' = profileFetches \ {f}
    /\ \/ profile' = [id |-> f.userId]          \* setProfile(data)
       \/ UNCHANGED profile                     \* error: console.error only
    /\ authLoading' = IF f.caller = "onAuthStateChange" THEN FALSE ELSE authLoading
    /\ UNCHANGED << user, sessionPending, authEvents >>
    /\ EffectsAfterRender
    /\ UNCHANGED outsideAuth

AuthInit ==
    /\ user = NULL
    /\ profile = NULL
    /\ authLoading = TRUE
    /\ sessionPending = TRUE
    /\ profileFetches = {}
    /\ authEvents = 0

(***************************************************************************)
(* The loading effect of the data pages                                    *)
(***************************************************************************)
\* useEffect(() => { if (dep) fetch...() }, [dep])
pageEffect(p) ==
    /\ effectDue[p]
    /\ effectDue' = [effectDue EXCEPT ![p] = FALSE]
    /\ IF Dep(p) # NULL
       THEN /\ pageFetch' = pageFetch \cup {p}
            /\ pageLoading' = IF p = "Calendar" THEN [pageLoading EXCEPT ![p] = TRUE]
                              ELSE pageLoading
       ELSE UNCHANGED << pageFetch, pageLoading >>
    /\ UNCHANGED << outsideAuth, authVars >>

\* the fetch of the page returns, with data or with an error: finally
pageFetchReturns(p) ==
    /\ p \in pageFetch
    /\ pageFetch' = pageFetch \ {p}
    /\ pageLoading' = [pageLoading EXCEPT ![p] = FALSE]
    /\ UNCHANGED << outsideAuth, authVars, effectDue >>

PagesInit ==
    /\ pageLoading = [p \in Pages |-> TRUE]
    /\ effectDue = [p \in Pages |-> TRUE]
    /\ pageFetch = {}

(***************************************************************************)
(* Events: createEvent                                                     *)
(***************************************************************************)
EmptyText == << >>

\* the values the fields of the dialog are given
Titles == { EmptyText, << "p", "a", "r", "t", "y" >> }
EventDates == { EmptyText, << "2", "0", "2", "4" >> }
InvitedFriends == SUBSET { 2, 3 }
EventForms == [title : Titles, date : EventDates, invited_friends : InvitedFriends]

ToastValidationError == "Validation Error"
ToastEventCreated    == "Event Created"
ToastEventFailed     == "Failed to create event. Please try again."

BlankEvent == [title |-> EmptyText, date |-> EmptyText, invited_friends |-> {}]

\* onChange of the fields of the dialog
setNewEvent(form) ==
    /\ form # newEvent
    /\ newEvent' = form
    /\ UNCHANGED << events, eventInvitations, eventToast, outsideEvents >>

\* the row insert(...).select().single() returns
EventRow(form) ==
    [id |-> Len(events) + 1, creator_id |-> Viewer, title |-> form.title,
     date |-> form.date]

\* newEvent.invited_friends.map(friendId => ({ event_id, user_id, status }))
Invitations(eventData, form) ==
    { [event_id |-> eventData.id, user_id |-> friendId, status |-> "pending"] :
         friendId \in form.invited_friends }

\* click on Create Event
createEvent ==
    /\ Len(events) < MaxEvents
    /\ IF newEvent.title = EmptyText \/ newEvent.date = EmptyText
       THEN /\ eventToast' = ToastValidationError
            /\ UNCHANGED << events, eventInvitations, newEvent >>
       ELSE \/ /\ eventToast' = ToastEventFailed      \* eventError
               /\ UNCHANGED << events, eventInvitations, newEvent >>
            \/ LET eventData == EventRow(newEvent)
               IN /\ events' = Append(events, eventData)
                  /\ \/ /\ eventInvitations' =
                              eventInvitations \cup Invitations(eventData, newEvent)
                        /\ eventToast' = ToastEventCreated
                        /\ newEvent' = BlankEvent
                     \/ /\ newEvent.invited_friends # {}   \* inviteError
                        /\ eventToast' = ToastEventFailed
                        /\ UNCHANGED << eventInvitations, newEvent >>
    /\ UNCHANGED outsideEvents

EventsInit ==
    /\ events = << >>
    /\ eventInvitations = {}
    /\ newEvent = BlankEvent
    /\ eventToast = ""

(***************************************************************************)
(* Feed: the greeting drafts and sendBirthdayGreeting                      *)
(***************************************************************************)
\* the friends whose birthday card is shown
GreetFriends == { 2, 3 }

\* the texts typed in a card's Textarea
Drafts == { EmptyText, << " " >>, << "h", "i", " " >>, << "y", "o" >> }

\* String.prototype.trim, for the space character
RECURSIVE Trim(_)
Trim(text) ==
    IF text = EmptyText THEN text
    ELSE IF Head(text) = " " THEN Trim(Tail(text))
    ELSE IF text[Len(text)] = " " THEN Trim(SubSeq(text, 1, Len(text) - 1))
    ELSE text

ToastEmptyMessage   == "Empty Message"
ToastGreetingSent   == "Greeting Sent!"
ToastGreetingFailed == "Failed to send birthday greeting."

\* onChange of the Textarea of friend f
setGreetingMessages(f, text) ==
    /\ text # greetingMessages[f]
    /\ greetingMessages' = [greetingMessages EXCEPT ![f] = text]
    /\ UNCHANGED << greetInFlight, greetingsTable, greetToast, outsideGreetings >>

\* click on the send button of friend f, up to the await of the insert; the
\* continuation keeps the greetingMessages of the render that made the call
sendBirthdayGreeting(birthdayUserId) ==
    /\ IF Trim(greetingMessages[birthdayUserId]) = EmptyText
       THEN /\ greetToast' = ToastEmptyMessage
            /\ UNCHANGED greetInFlight
       ELSE /\ Len(greetingsTable) + Cardinality(greetInFlight) < MaxGreetings
            /\ greetInFlight' = greetInFlight \cup
                  {[birthdayUserId |-> birthdayUserId,
                    message |-> Trim(greetingMessages[birthdayUserId]),
                    greetingMessages |-> greetingMessages]}
            /\ UNCHANGED greetToast
    /\ UNCHANGED << greetingMessages, greetingsTable, outsideGreetings >>

\* the response to the insert of a call for friend f, and the rest of the handler
greetingInsertReturns(birthdayUserId) ==
    \E call \in greetInFlight :
       /\ call.birthdayUserId = birthdayUserId
       /\ greetInFlight' = greetInFlight \ {call}
       /\ \/ /\ greetingsTable' =
                   Append(greetingsTable,
                          [birthday_user_id |-> birthdayUserId, from_user_id |-> Viewer,
                           message |-> call.message])
             /\ greetToast' = ToastGreetingSent
             /\ greetingMessages' =
                   [call.greetingMessages EXCEPT ![birthdayUserId] = EmptyText]
          \/ /\ greetToast' = ToastGreetingFailed      \* error
             /\ UNCHANGED << greetingsTable, greetingMessages >>
       /\ UNCHANGED outsideGreetings

GreetingsInit ==
    /\ greetingMessages = [f \in GreetFriends |-> EmptyText]
    /\ greetInFlight = {}
    /\ greetingsTable = << >>
    /\ greetToast = ""

(***************************************************************************)
(* Profile: the birthday field of the form, onSubmit, updateProfile        *)
(***************************************************************************)
\* a Date object, where the field may also hold undefined (NULL)
DateObject(t) == [getTime |-> t]

\* toISOString().split('T')[0]: the calendar date of the instant in UTC
ToISODate(dateObject) == DateOfDay(FloorDiv(dateObject.getTime, TicksPerDay))

\* format(field.value, "PPP"): the calendar date of the instant in local time
FormatPPP(dateObject) == DateOfDay(LocalDay(dateObject.getTime))

\* defaultValues.birthday of useForm
DefaultBirthday(stored) ==
    IF stored # NULL THEN DateObject(NewDateFromString(stored)) ELSE NULL

\* the page is opened: useForm takes its default values from the profile
mountProfile ==
    /\ formBirthday' = DefaultBirthday(birthdayOf[Viewer])
    /\ pickedDate' = NULL
    /\ UNCHANGED << birthdayOf, profileToast, outsideProfile >>

\* onSelect of the day picker: the day's local midnight
onSelect(day) ==
    /\ formBirthday' = DateObject(NewDateLocal(day.y, day.m, day.d))
    /\ pickedDate' = day
    /\ UNCHANGED << birthdayOf, profileToast, outsideProfile >>

ToastProfileUpdated == "Profile updated"
ToastUpdateFailed   == "Update failed"

\* submit of the form: onSubmit and updateProfile
onSubmit ==
    /\ \/ /\ birthdayOf' =
                [birthdayOf EXCEPT ![Viewer] =
                    IF formBirthday # NULL THEN ToISODate(formBirthday) ELSE NULL]
          /\ profileToast' = ToastProfileUpdated
       \/ /\ profileToast' = ToastUpdateFailed       \* the update failed
          /\ UNCHANGED birthdayOf
    /\ UNCHANGED << formBirthday, pickedDate, outsideProfile >>

ProfileFormInit ==
    /\ formBirthday = NULL
    /\ pickedDate = NULL
    /\ profileToast = ""

\* the initial state of the providers and forms
OtherInit ==
    /\ AuthInit
    /\ PagesInit
    /\ SearchInit
    /\ EventsInit
    /\ GreetingsInit
    /\ ProfileFormInit

(***************************************************************************)
(* Specification of the birthday pages over one friend: every stored       *)
(* birthday against every reading of the clock                             *)
(***************************************************************************)

Date(y, m, d) == [y |-> y, m |-> m, d |-> d]

BirthDates ==
    { Date(1992, 2, 29), Date(1992, 3, 1), Date(1993, 3, 1), Date(1993, 2, 28),
      Date(1990, 3, 10), Date(1990, 1, 5), Date(1991, 1, 1), Date(1991, 12, 31),
      Date(1990, 12, 20), Date(1990, 11, 4) }

NowYears == { 2023, 2024 }
NowMonthDays ==
    { << 1, 1 >>, << 1, 5 >>, << 2, 28 >>, << 2, 29 >>, << 3, 1 >>, << 3, 2 >>,
      << 3, 10 >>, << 11, 4 >>, << 12, 20 >>, << 12, 31 >> }
NowDates ==
    { Date(y, md[1], md[2]) : y \in NowYears, md \in NowMonthDays }
\* just after midnight, noon, just before midnight, and midnight itself
TimesOfDay == { 0, 1, 12 * TicksPerHour, TicksPerDay - 1 }
UTC == [std |-> 0, dst |-> FALSE]
Zones == { [std |-> -5 * TicksPerHour, dst |-> TRUE], UTC,
           [std |-> TicksPerHour, dst |-> FALSE] }

ValidDate(dt) == dt.d <= DaysInMonth(dt.y, dt.m)

FriendsPageInit ==
    /\ friends = [u \in FUsers |-> << >>]
    /\ pendingRequests = [u \in FUsers |-> << >>]
    /\ searchQuery = [u \in FUsers |-> << >>]
    /\ searchResults = [u \in FUsers |-> << >>]
    /\ fetched = [u \in FUsers |-> << >>]
    /\ searched = [u \in FUsers |-> NoSearch]
    /\ loading = [u \in FUsers |-> TRUE]
    /\ toasts = << >>
    /\ resolved = {}

BirthdayPagesInit ==
    /\ upcomingBirthdays = << >>
    /\ dashRows = << >>
    /\ birthdays = << >>
    /\ currentDate = now                 \* useState(new Date())
    /\ todaysBirthdays = << >>
    /\ alerts = [today |-> << >>, nextWeek |-> << >>]
    /\ loaded = {}
    /\ viewLoaded = FALSE

ClockInit ==
    /\ tz \in Zones
    /\ \E dt \in { x \in NowDates : ValidDate(x) }, tod \in TimesOfDay :
          now = InstantOfLocal(DayNum(dt.y, dt.m, dt.d) * TicksPerDay + tod)

InitOccurrence ==
    /\ friendships \in { << Edge(1, Viewer, 2, "accepted") >>,
                         << Edge(1, 2, Viewer, "accepted") >> }
    /\ \E b \in BirthDates \cup {NULL} : birthdayOf = [u \in 1 .. 2 |-> IF u = 2 THEN b ELSE NULL]
    /\ ClockInit
    /\ FriendsPageInit
    /\ BirthdayPagesInit
    /\ OtherInit

NextOccurrence ==
    \/ fetchDashboardData
    \/ fetchBirthdays

SpecOccurrence == InitOccurrence /\ [][NextOccurrence]_vars

(***************************************************************************)
(* The same store and clock under the same-day matches of the Feed and of  *)
(* the NotificationSystem                                                  *)
(***************************************************************************)
NextOnDay ==
    \/ fetchTodaysBirthdays
    \/ checkBirthdayNotifications

SpecOnDay == InitOccurrence /\ [][NextOnDay]_vars

(***************************************************************************)
(* Specification of the birthday pages over a population of friends: the   *)
(* viewer has NumFriends accepted friends, requester of every other edge,  *)
(* and the store returns the rows in either order of the table             *)
(***************************************************************************)
FriendIds == 2 .. NumFriends + 1

UpcomingBirthDates == { Date(1990, 3, 5), Date(1991, 3, 10), Date(1992, 4, 14) }
UpcomingNowDates   == { Date(2023, 3, 5), Date(2024, 1, 1) }

\* the birthdays a friend may have stored
BirthdayChoices(u) ==
    IF u <= 3 THEN UpcomingBirthDates \cup {NULL}
    ELSE IF u <= 5 THEN { Date(1990, 3, 5), Date(1991, 3, 10) }
    ELSE IF u % 2 = 0 THEN { Date(1991, 3, 10) }
    ELSE { Date(1992, 4, 14) }

FriendEdge(u) ==
    IF u % 2 = 0 THEN Edge(u, Viewer, u, "accepted") ELSE Edge(u, u, Viewer, "accepted")

AscendingTable  == [i \in 1 .. NumFriends |-> FriendEdge(i + 1)]
DescendingTable == [i \in 1 .. NumFriends |-> FriendEdge(NumFriends + 2 - i)]

InitUpcoming ==
    /\ friendships \in { AscendingTable, DescendingTable }
    /\ birthdayOf \in [1 .. NumFriends + 1 -> UpcomingBirthDates \cup {NULL}]
    /\ birthdayOf[Viewer] = NULL
    /\ \A u \in FriendIds : birthdayOf[u] \in BirthdayChoices(u)
    /\ tz = UTC
    /\ \E dt \in UpcomingNowDates, tod \in TimesOfDay :
          now = InstantOfLocal(DayNum(dt.y, dt.m, dt.d) * TicksPerDay + tod)
    /\ FriendsPageInit
    /\ BirthdayPagesInit
    /\ OtherInit

NextUpcoming ==
    \/ fetchDashboardData
    \/ fetchBirthdays
    \/ fetchTodaysBirthdays

SpecUpcoming == InitUpcoming /\ [][NextUpcoming]_vars

(***************************************************************************)
(* Vocabulary of the properties                                            *)
(***************************************************************************)
\* the people an accepted edge of the store connects to the viewer
FriendsOfViewer ==
    { u \in DOMAIN birthdayOf :
        \E i \in 1 .. Len(friendships) :
           /\ friendships[i].status = "accepted"
           /\ \/ friendships[i].requester_id = Viewer /\ friendships[i].addressee_id = u
              \/ friendships[i].addressee_id = Viewer /\ friendships[i].requester_id = u }

FriendsWithBirthday == { u \in FriendsOfViewer : birthdayOf[u] # NULL }

\* the reference calendar day: the viewer's local date, whatever the time of day
Today == DateOfDay(LocalDay(now))

SameMonthDay(b, dt) == b.m = dt.m /\ b.d = dt.d

Elements(s) == { s[i] : i \in 1 .. Len(s) }

(***************************************************************************)
(* Properties of the next-occurrence computation (SpecOccurrence)          *)
(***************************************************************************)

\* C4: a friend whose birth date has today's month and day is listed with
\* daysUntil = 0 and an occurrence in today's year, at any time of day.
C4_BirthdayTodayIsZero ==
    "dashboard" \in loaded =>
       \A i \in 1 .. Len(upcomingBirthdays) :
          LET e == upcomingBirthdays[i]
          IN SameMonthDay(e.birthday, Today) =>
                /\ e.daysUntil = 0
                /\ getFullYear(NextBirthday(e.birthday)) = Today.y

\* the calendar day of the first occurrence of month/day b on or after today
FirstOccurrenceDay(b) ==
    IF DayNum(Today.y, b.m, b.d) >= LocalDay(now)
    THEN DayNum(Today.y, b.m, b.d)
    ELSE DayNum(Today.y + 1, b.m, b.d)

\* C5: the next occurrence is the first calendar date on or after today's
\* calendar day with the birth date's month and day (time of day ignored), and
\* daysUntil counts the whole calendar days up to it.  Stated for the birth
\* dates whose month and day exist in every year.
C5_FirstOccurrenceOnOrAfterToday ==
    "dashboard" \in loaded =>
       \A i \in 1 .. Len(upcomingBirthdays) :
          LET e == upcomingBirthdays[i]
          IN ~(e.birthday.m = 2 /\ e.birthday.d = 29) =>
                /\ LocalDay(NextBirthday(e.birthday)) = FirstOccurrenceDay(e.birthday)
                /\ e.daysUntil = FirstOccurrenceDay(e.birthday) - LocalDay(now)

\* C6: every computed daysUntil is an integer between 0 and 366, for every
\* birth date (February 29 included), reference date and time of day.
C6_DaysUntilInRange ==
    \A i \in 1 .. Len(upcomingBirthdays) :
       /\ upcomingBirthdays[i].daysUntil \in Int
       /\ 0 <= upcomingBirthdays[i].daysUntil
       /\ upcomingBirthdays[i].daysUntil <= 366

(***************************************************************************)
(* Properties of the same-day match (SpecOnDay)                            *)
(***************************************************************************)
BornOnMonthDay(dt) ==
    { u \in FriendsWithBirthday : SameMonthDay(birthdayOf[u], dt) }

\* C10: the same-day match of the Feed and of the notification check selects
\* exactly the friends whose stored birth date has today's month and day,
\* whatever the birth year, the leap status of the year and the timezone.
C10_OnDayMatchesMonthDay ==
    /\ "feed" \in loaded => Ids(todaysBirthdays) = BornOnMonthDay(Today)
    /\ "notifications" \in loaded => Ids(alerts.today) = BornOnMonthDay(Today)

(***************************************************************************)
(* Properties of the upcoming-birthdays list and of the exclusion of       *)
(* friends without a birth date (SpecUpcoming)                             *)
(***************************************************************************)
Min(a, b) == IF a < b THEN a ELSE b

\* C7: the upcoming list is sorted non-decreasing by daysUntil, holds at most
\* Limit entries, and these are the friends with the smallest daysUntil.
C7_UpcomingSortedSmallest ==
    "dashboard" \in loaded =>
       LET n == Len(upcomingBirthdays)
       IN /\ n <= Limit
          /\ n = Min(Limit, Cardinality(FriendsWithBirthday))
          /\ Ids(upcomingBirthdays) \subseteq FriendsWithBirthday
          /\ Cardinality(Ids(upcomingBirthdays)) = n
          /\ \A i \in 1 .. n :
                upcomingBirthdays[i].daysUntil =
                   DaysUntil(birthdayOf[upcomingBirthdays[i].id])
          /\ \A i, j \in 1 .. n :
                i < j => upcomingBirthdays[i].daysUntil <= upcomingBirthdays[j].daysUntil
          /\ \A u \in FriendsWithBirthday \ Ids(upcomingBirthdays) :
                \A i \in 1 .. n :
                   upcomingBirthdays[i].daysUntil <= DaysUntil(birthdayOf[u])

\* more friends than the limit, with different daysUntil: the list is cut
C7_Witness ==
    /\ "dashboard" \in loaded
    /\ Cardinality(FriendsWithBirthday) > Limit
    /\ Len(upcomingBirthdays) = Limit
    /\ upcomingBirthdays[1].daysUntil < upcomingBirthdays[Limit].daysUntil
    /\ \E u \in FriendsWithBirthday \ Ids(upcomingBirthdays) :
          upcomingBirthdays[Limit].daysUntil < DaysUntil(birthdayOf[u])

\* C8, as claimed: friends with equal daysUntil are ordered by identifier, in
\* the list and at the cut, whatever the order of the rows.
C8_TiesOrderedById ==
    "dashboard" \in loaded =>
       /\ \A i, j \in 1 .. Len(upcomingBirthdays) :
             (i < j /\ upcomingBirthdays[i].daysUntil = upcomingBirthdays[j].daysUntil)
                => upcomingBirthdays[i].id < upcomingBirthdays[j].id
       /\ \A u \in FriendsWithBirthday \ Ids(upcomingBirthdays) :
             \A i \in 1 .. Len(upcomingBirthdays) :
                upcomingBirthdays[i].daysUntil = DaysUntil(birthdayOf[u])
                   => upcomingBirthdays[i].id < u

\* the position of friend u's row in the rows the Dashboard processed
RowIndex(u) ==
    CHOOSE k \in 1 .. Len(dashRows) :
       dashRows[k].requester_id = u \/ dashRows[k].addressee_id = u

\* C8, amended: friends with equal daysUntil keep the order of their rows in
\* the query result, in the list and at the cut.
C8_TiesKeepRowOrder ==
    "dashboard" \in loaded =>
       /\ \A i, j \in 1 .. Len(upcomingBirthdays) :
             (i < j /\ upcomingBirthdays[i].daysUntil = upcomingBirthdays[j].daysUntil)
                => RowIndex(upcomingBirthdays[i].id) < RowIndex(upcomingBirthdays[j].id)
       /\ \A u \in FriendsWithBirthday \ Ids(upcomingBirthdays) :
             \A i \in 1 .. Len(upcomingBirthdays) :
                upcomingBirthdays[i].daysUntil = DaysUntil(birthdayOf[u])
                   => RowIndex(upcomingBirthdays[i].id) < RowIndex(u)

\* a tie listed against the order of the identifiers, and a tie at the cut
C8_Witness ==
    /\ "dashboard" \in loaded
    /\ \E i, j \in 1 .. Len(upcomingBirthdays) :
          /\ i < j
          /\ upcomingBirthdays[i].daysUntil = upcomingBirthdays[j].daysUntil
          /\ upcomingBirthdays[i].id > upcomingBirthdays[j].id
    /\ \E u \in FriendsWithBirthday \ Ids(upcomingBirthdays) :
          upcomingBirthdays[Len(upcomingBirthdays)].daysUntil = DaysUntil(birthdayOf[u])

\* the accepted rows of the viewer whose other end has a birth date
RowsWithBirthday ==
    SelectSeq(AcceptedFriendshipsOf(Viewer),
              LAMBDA r : birthdayOf[IF r.requester_id = Viewer THEN r.addressee_id
                                    ELSE r.requester_id] # NULL)

NoEntryWithoutBirthday(s) == \A i \in 1 .. Len(s) : s[i].birthday # NULL

\* C9: a friend without a birth date appears in no birthday projection, and
\* each projection is what it would be were that friend's row not there.
C9_NoBirthdayExcluded ==
    (FriendsOfViewer # FriendsWithBirthday) =>
       /\ "dashboard" \in loaded =>
             /\ NoEntryWithoutBirthday(upcomingBirthdays)
             /\ Ids(upcomingBirthdays) \subseteq FriendsWithBirthday
             /\ Len(upcomingBirthdays) = Min(Limit, Cardinality(FriendsWithBirthday))
             /\ upcomingBirthdays = UpcomingBdays(Viewer, RowsWithBirthday)
       /\ "calendar" \in loaded =>
             /\ NoEntryWithoutBirthday(birthdays)
             /\ Ids(birthdays) = FriendsWithBirthday
             /\ Len(birthdays) = Cardinality(FriendsWithBirthday)
       /\ "feed" \in loaded =>
             /\ NoEntryWithoutBirthday(todaysBirthdays)
             /\ todaysBirthdays = BirthdayFriends(Viewer, RowsWithBirthday)

\* all three projections loaded with a friend without birth date among friends
\* with one, one of them born today
C9_Witness ==
    /\ loaded = {"dashboard", "calendar", "feed"}
    /\ FriendsOfViewer # FriendsWithBirthday
    /\ Len(upcomingBirthdays) > 0
    /\ Len(birthdays) > 0
    /\ Len(todaysBirthdays) > 0

(***************************************************************************)
(* Specification of the resolution of edges: the store holds any edges     *)
(* between the viewer and four other people, every friend is born on       *)
(* today's month and day, and each page resolves what the store returns    *)
(***************************************************************************)
OtherPeople == { 2, 3, 4, 5 }
Statuses    == { "pending", "accepted", "declined" }

\* the edges the store may hold between the viewer and person u
EdgeChoices(u) ==
    { << >> } \cup { << Edge(u, Viewer, u, st) >> : st \in Statuses }
              \cup { << Edge(u, u, Viewer, st) >> : st \in Statuses }

InitResolve ==
    /\ \E e2 \in EdgeChoices(2), e3 \in EdgeChoices(3),
          e4 \in EdgeChoices(4), e5 \in EdgeChoices(5) :
          friendships = e2 \o e3 \o e4 \o e5
    /\ birthdayOf = [u \in {Viewer} \cup OtherPeople |->
                        IF u = Viewer THEN NULL ELSE Date(1990 + u, 3, 10)]
    /\ tz = UTC
    /\ now = DayNum(2023, 3, 10) * TicksPerDay
    /\ FriendsPageInit
    /\ BirthdayPagesInit
    /\ OtherInit

NextResolve ==
    \/ fetchFriends(Viewer)
    \/ fetchDashboardData
    \/ fetchBirthdays
    \/ fetchTodaysBirthdays

SpecResolve == InitResolve /\ [][NextResolve]_vars

(***************************************************************************)
(* Properties of the resolution (SpecResolve)                              *)
(***************************************************************************)
\* the rows of status st among the rows the Friends page processed
RowsOfStatus(u, st) == { i \in 1 .. Len(fetched[u]) : fetched[u][i].status = st }

\* C1: resolution puts every edge of the viewer in exactly one of: confirmed
\* (accepted), incoming pending (pending, viewer addressee), outgoing pending
\* (pending, viewer requester), discarded (declined); the three lists are
\* pairwise disjoint by edge and their sizes plus the declined add up.
C1_ResolvePartitions ==
    LET u        == Viewer
        rows     == fetched[u]
        incoming == IncomingRequests(u)
        outgoing == SentRequests(u)
    IN /\ \A i \in 1 .. Len(rows) :
             LET r == rows[i]
             IN /\ r.id \in FriendshipIds(friends[u]) <=> r.status = "accepted"
                /\ r.id \in FriendshipIds(incoming) <=>
                      (r.status = "pending" /\ r.addressee_id = u /\ r.requester_id # u)
                /\ r.id \in FriendshipIds(outgoing) <=>
                      (r.status = "pending" /\ r.requester_id = u)
                /\ (/\ r.id \notin FriendshipIds(friends[u])
                    /\ r.id \notin FriendshipIds(incoming)
                    /\ r.id \notin FriendshipIds(outgoing)) <=> r.status = "declined"
       /\ FriendshipIds(friends[u]) \cap FriendshipIds(incoming) = {}
       /\ FriendshipIds(friends[u]) \cap FriendshipIds(outgoing) = {}
       /\ FriendshipIds(incoming) \cap FriendshipIds(outgoing) = {}
       /\ Cardinality(FriendshipIds(friends[u])) = Len(friends[u])
       /\ Cardinality(FriendshipIds(incoming)) = Len(incoming)
       /\ Cardinality(FriendshipIds(outgoing)) = Len(outgoing)
       /\ Len(friends[u]) + Len(incoming) + Len(outgoing)
             + Cardinality(RowsOfStatus(u, "declined")) = Len(rows)

\* four edges resolved, one in each class
C1_Witness ==
    /\ Len(fetched[Viewer]) = 4
    /\ Len(friends[Viewer]) = 1
    /\ Len(IncomingRequests(Viewer)) = 1
    /\ Len(SentRequests(Viewer)) = 1
    /\ Cardinality(RowsOfStatus(Viewer, "declined")) = 1

\* the other end of a stored edge of the viewer
OtherEnd(e) == IF e.requester_id = Viewer THEN e.addressee_id ELSE e.requester_id

AcceptedOtherEnds ==
    { OtherEnd(friendships[i]) :
         i \in { k \in 1 .. Len(friendships) : friendships[k].status = "accepted" } }

\* C2: for an edge the viewer requested the counterpart is the addressee and
\* is_requester is true; for an edge addressed to the viewer the counterpart
\* is the requester and is_requester is false; so in the Friends page, the
\* Dashboard, the Calendar and the Feed the viewer is never a counterpart.
C2_CounterpartIsOtherEnd ==
    /\ \A i \in 1 .. Len(fetched[Viewer]) :
          LET r == fetched[Viewer][i]
          IN \A f \in { x \in Elements(friends[Viewer]) \cup Elements(pendingRequests[Viewer]) :
                          x.friendship_id = r.id } :
                /\ r.requester_id = Viewer => (f.id = r.addressee_id /\ f.is_requester)
                /\ (r.addressee_id = Viewer /\ r.requester_id # Viewer)
                      => (f.id = r.requester_id /\ ~f.is_requester)
                /\ f.id # Viewer
    /\ "dashboard" \in loaded =>
          /\ Viewer \notin Ids(upcomingBirthdays)
          /\ Ids(upcomingBirthdays) \subseteq AcceptedOtherEnds
          /\ Len(upcomingBirthdays) = Cardinality(AcceptedOtherEnds)
    /\ "calendar" \in loaded => Ids(birthdays) = AcceptedOtherEnds
    /\ "feed" \in loaded => Ids(todaysBirthdays) = AcceptedOtherEnds

\* every page has resolved edges of both directions
C2_Witness ==
    /\ loaded = {"dashboard", "calendar", "feed"}
    /\ \E f, g \in Elements(friends[Viewer]) : f.is_requester /\ ~g.is_requester
    /\ \E f, g \in Elements(pendingRequests[Viewer]) : f.is_requester /\ ~g.is_requester
    /\ Cardinality(Ids(upcomingBirthdays)) = 2
    /\ Ids(birthdays) = Ids(upcomingBirthdays)
    /\ Ids(todaysBirthdays) = Ids(upcomingBirthdays)

(***************************************************************************)
(* Specification of the Friends pages: the store holds a request of person *)
(* 3 to user 1; users 1 and 2 have the page open, both reload and answer  *)
(* the requests they see, and user 1 searches and sends requests           *)
(***************************************************************************)
Senders == { 1 }

InitFriends ==
    /\ friendships = << Edge(1, 3, 1, "pending") >>
    /\ birthdayOf = [u \in People |-> IF u % 2 = 0 THEN Date(1990 + u, 3, 10) ELSE NULL]
    /\ tz = UTC
    /\ now = DayNum(2023, 3, 10) * TicksPerDay
    /\ FriendsPageInit
    /\ BirthdayPagesInit
    /\ OtherInit

NextFriends ==
    \/ \E u \in FUsers : fetchFriends(u)
    \/ \E u \in Senders, q \in Queries : setSearchQuery(u, q)
    \/ \E u \in Senders, p \in People : sendFriendRequest(u, p)
    \/ \E u \in FUsers, i \in 1 .. MaxEdges, action \in { "accept", "decline" } :
          respondToFriendRequest(u, i, action)

SpecFriends == InitFriends /\ [][NextFriends]_vars

(***************************************************************************)
(* Properties of the search filter (SpecFriends)                           *)
(***************************************************************************)
\* C3: the search results are exactly the candidates whose id is in neither
\* the confirmed nor the pending list the search was given, and are empty
\* when there is no candidate.
C3_SearchExcludesConnected ==
    \A u \in FUsers :
       LET g         == searched[u]
           connected == Ids(g.friends) \cup Ids(g.pending)
       IN /\ \A i \in 1 .. Len(searchResults[u]) :
                searchResults[u][i].id \notin connected
          /\ Elements(searchResults[u]) =
                { c \in Elements(g.users) : c.id \notin connected }
          /\ Cardinality(Ids(searchResults[u])) = Len(searchResults[u])
          /\ g.users = << >> => searchResults[u] = << >>

\* a search that met a friend, a pending request and an unconnected person
C3_Witness ==
    \E u \in FUsers :
       /\ searched[u].friends # << >>
       /\ searched[u].pending # << >>
       /\ Ids(searched[u].friends) \cap Ids(searched[u].users) # {}
       /\ Ids(searched[u].pending) \cap Ids(searched[u].users) # {}
       /\ searchResults[u] # << >>

(***************************************************************************)
(* Specification of the Calendar: two friends, the month shown moved up to *)
(* MaxMonths away from today's.  (The buttons are rendered once the first  *)
(* fetch has ended; a first fetch that failed leaves the initial state.)   *)
(***************************************************************************)
CalendarBirthDates ==
    [f2 |-> { Date(1992, 2, 29), Date(1990, 1, 31), Date(1991, 12, 25), NULL },
     f3 |-> { Date(1990, 3, 1), Date(1993, 1, 15), Date(1991, 12, 5) }]

CalendarNowDates == { Date(2023, 12, 20), Date(2024, 1, 31) }

InitCalendar ==
    /\ friendships = << Edge(1, Viewer, 2, "accepted"), Edge(2, 3, Viewer, "accepted") >>
    /\ \E b2 \in CalendarBirthDates.f2, b3 \in CalendarBirthDates.f3 :
          birthdayOf = [u \in 1 .. 3 |-> IF u = 2 THEN b2 ELSE IF u = 3 THEN b3 ELSE NULL]
    /\ tz \in Zones
    /\ \E dt \in CalendarNowDates, tod \in TimesOfDay :
          now = InstantOfLocal(DayNum(dt.y, dt.m, dt.d) * TicksPerDay + tod)
    /\ FriendsPageInit
    /\ BirthdayPagesInit
    /\ OtherInit

NextCalendar ==
    \/ fetchBirthdays
    \/ nextMonth
    \/ prevMonth
    \/ goToToday

SpecCalendar == InitCalendar /\ [][NextCalendar]_vars

(***************************************************************************)
(* Properties of the Calendar (SpecCalendar)                               *)
(***************************************************************************)
DisplayedYear  == getFullYear(currentDate)
DisplayedMonth == getMonth(currentDate)

\* the day a birth date is projected to in year y: its month and day there,
\* February 29 running on to March 1 when y has none
ProjectedDay(b, y) == DayNum(y, b.m, b.d)

\* the friends whose projected date lies in the month shown
InMonthFriends ==
    { u \in FriendsWithBirthday :
        LET n == ProjectedDay(birthdayOf[u], DisplayedYear)
        IN YearOfDay(n) = DisplayedYear /\ MonthOfDay(n) = DisplayedMonth }

\* C11: once the birthdays of the view shown are loaded, the month list holds
\* exactly the friends whose birth date projected into the displayed year
\* falls in the displayed month, every projected date has the displayed
\* year, and the list ascends by day of the month.
C11_MonthListExact ==
    viewLoaded =>
       LET l == MonthBirthdays
       IN /\ Ids(l) = InMonthFriends
          /\ Len(l) = Cardinality(InMonthFriends)
          /\ \A i \in 1 .. Len(l) :
                /\ getFullYear(l[i].actualDate) = DisplayedYear
                /\ LocalDay(l[i].actualDate) =
                      ProjectedDay(birthdayOf[l[i].id], DisplayedYear)
          /\ \A i, j \in 1 .. Len(l) :
                i < j => DateOfDay(LocalDay(l[i].actualDate)).d
                            <= DateOfDay(LocalDay(l[j].actualDate)).d

\* a month other than today's, loaded, listing both friends against the
\* order of their rows
C11_Witness ==
    /\ viewLoaded
    /\ MonthIndex(currentDate) # MonthIndex(now)
    /\ Len(MonthBirthdays) = 2
    /\ MonthBirthdays[1].id = 3
    /\ Len(birthdays) = 2

\* C12: a birthday whose projected date in the displayed year is before
\* today is in the month list and in the cell of its day, with a date of the
\* displayed year.
C12_PastBirthdayKept ==
    viewLoaded =>
       \A u \in InMonthFriends :
          LET n == ProjectedDay(birthdayOf[u], DisplayedYear)
          IN n < LocalDay(now) =>
                /\ u \in Ids(MonthBirthdays)
                /\ \E day \in CalendarDays :
                      /\ LocalDay(day) = n
                      /\ u \in Ids(getBirthdaysForDay(day))
                /\ \A i \in 1 .. Len(birthdays) :
                      birthdays[i].id = u =>
                         getFullYear(birthdays[i].actualDate) = DisplayedYear

\* the month shown holds a birthday that is already past
C12_Witness ==
    /\ viewLoaded
    /\ \E u \in InMonthFriends :
          /\ ProjectedDay(birthdayOf[u], DisplayedYear) < LocalDay(now)
          /\ u \in Ids(MonthBirthdays)

\* C13: every card of the month list carries exactly one of Today, Past and
\* Upcoming, and a birthday on today's calendar day carries Today.
C13_OneBadge ==
    \A i \in 1 .. Len(MonthBirthdays) :
       LET birthday == MonthBirthdays[i]
       IN /\ Cardinality(Badges(birthday)) = 1
          /\ Badges(birthday) \subseteq {"Today", "Past", "Upcoming"}
          /\ LocalDay(birthday.actualDate) = LocalDay(now)
                => Badges(birthday) = {"Today"}

\* a birthday of today, looked at after midnight
C13_Witness ==
    \E i \in 1 .. Len(MonthBirthdays) :
       /\ LocalDay(MonthBirthdays[i].actualDate) = LocalDay(now)
       /\ MonthBirthdays[i].actualDate < now

(***************************************************************************)
(* The occurrence of a February 29 birth date (SpecOccurrence)             *)
(***************************************************************************)
\* the occurrence a policy with fallback month and day fb assigns to year y
Feb29Occurrence(y, fb) ==
    IF IsLeap(y) THEN Date(y, 2, 29) ELSE Date(y, fb[1], fb[2])

IsFeb29(b) == b # NULL /\ b.m = 2 /\ b.d = 29

\* C14: for a February 29 birth date the occurrence assigned to a year is
\* February 29 when the year is leap and one fixed fallback date otherwise,
\* whether the year is the Dashboard's candidate year, its rolled-over year
\* or the year the Calendar shows.
C14_Feb29PolicyConsistent ==
    \E fb \in { << 2, 28 >>, << 3, 1 >> } :
       /\ \A i \in 1 .. Len(upcomingBirthdays) :
             IsFeb29(upcomingBirthdays[i].birthday) =>
                LET occ == DateOfDay(LocalDay(NextBirthday(upcomingBirthdays[i].birthday)))
                IN occ = Feb29Occurrence(occ.y, fb)
       /\ \A i \in 1 .. Len(birthdays) :
             IsFeb29(birthdays[i].birthday) =>
                LET occ == DateOfDay(LocalDay(birthdays[i].actualDate))
                IN occ = Feb29Occurrence(occ.y, fb)

(***************************************************************************)
(* Properties of the writes of the Friends page (SpecFriends)              *)
(***************************************************************************)
\* the row of the table with identifier id connects users a and b
Connects(e, a, b) ==
    \/ e.requester_id = a /\ e.addressee_id = b
    \/ e.requester_id = b /\ e.addressee_id = a

\* C17: Accept and Decline are offered only to the addressee of an edge, and
\* every change of an edge's status is a respondToFriendRequest of its
\* addressee.
C17_OnlyAddresseeResponds ==
    /\ [](\A u \in FUsers : \A i \in 1 .. Len(IncomingRequests(u)) :
             \E k \in 1 .. Len(friendships) :
                /\ friendships[k].id = IncomingRequests(u)[i].friendship_id
                /\ friendships[k].addressee_id = u
                /\ friendships[k].requester_id # u)
    /\ [][\A k \in 1 .. Len(friendships) :
             friendships'[k] # friendships[k] =>
                /\ friendships[k].addressee_id \in FUsers
                /\ \E action \in { "accept", "decline" } :
                      respondToFriendRequest(friendships[k].addressee_id,
                                             friendships[k].id, action)]_vars

\* a request of user 1 answered by user 2 while user 1 still lists it as sent
C17_Witness ==
    \E k \in 1 .. Len(friendships) :
       /\ friendships[k].requester_id = 1
       /\ friendships[k].addressee_id = 2
       /\ friendships[k].status # "pending"
       /\ friendships[k].id \in FriendshipIds(SentRequests(1))

\* C18: the store holds at most one edge per unordered pair of users, and no
\* search result (each has the Add Friend button) is a person the store
\* connects to the user by an edge of any status.
C18_OneEdgePerPair ==
    /\ \A i, j \in 1 .. Len(friendships) :
          i < j => ~Connects(friendships[j], friendships[i].requester_id,
                             friendships[i].addressee_id)
    /\ \A u \in FUsers : \A p \in Ids(searchResults[u]) :
          \A k \in 1 .. Len(friendships) : ~Connects(friendships[k], u, p)

\* C19: a search that filtered its candidates did so against lists that a
\* completed fetchFriends of that page had set.
C19_SearchAfterResolution ==
    \A u \in FUsers : searched[u].ran => searched[u].resolved

\* the lists of user u are the resolution of the table as the step leaves it
ListsResolved(u) ==
    /\ friends'[u] = ProcessedFriends(u, FriendshipsIn(friendships', u))
    /\ pendingRequests'[u] = ProcessedPending(u, FriendshipsIn(friendships', u))

\* the outcomes of a write by user u with success toast ok and error toast
\* failed
WriteOutcome(u, ok, failed) ==
    \/ /\ toasts' = << ok >>
       /\ ListsResolved(u)
    \/ /\ toasts' = << ok, ToastLoadFailed >>
       /\ UNCHANGED << friends, pendingRequests >>
    \/ /\ toasts' = << failed >>
       /\ UNCHANGED << friendships, friends, pendingRequests >>

\* C20: a write that succeeded is followed by a refetch of the table as the
\* write left it, whose lists are shown when it succeeds; a write that failed
\* changes neither the table nor the lists and shows the error toast alone.
C20_RefetchAfterWrite ==
    [][\A u \in FUsers :
          /\ \A p \in People :
                sendFriendRequest(u, p) => WriteOutcome(u, ToastSent, ToastSendFailed)
          /\ \A i \in 1 .. MaxEdges :
                /\ respondToFriendRequest(u, i, "accept")
                      => WriteOutcome(u, ToastAccepted, ToastRespondFailed)
                /\ respondToFriendRequest(u, i, "decline")
                      => WriteOutcome(u, ToastDeclined, ToastRespondFailed)]_vars

\* a request was sent and the refetch lists it
C20_Witness ==
    /\ toasts = << ToastSent >>
    /\ SentRequests(1) # << >>
    /\ fetched[1] = FriendshipsOf(1)

(***************************************************************************)
(* Specification of the resolution over rows that are not all well formed: *)
(* the table holds two edges, of the viewer's or between two other people, *)
(* and person 4 has no profiles row to embed                               *)
(***************************************************************************)
InputPairs == { << 1, 2 >>, << 3, 1 >>, << 1, 4 >>, << 2, 3 >> }

InputEdges(i) ==
    { Edge(i, p[1], p[2], st) : p \in InputPairs, st \in { "accepted", "pending" } }

InitInput ==
    /\ \E e1 \in InputEdges(1), e2 \in InputEdges(2) :
          /\ e1.requester_id # e2.requester_id \/ e1.addressee_id # e2.addressee_id
          /\ friendships = << e1, e2 >>
    /\ birthdayOf = [u \in 1 .. 4 |-> IF u = 1 THEN NULL
                                      ELSE IF u = 4 THEN NoProfile
                                      ELSE Date(1988 + u, 3, 10)]
    /\ tz = UTC
    /\ now = DayNum(2023, 3, 10) * TicksPerDay
    /\ FriendsPageInit
    /\ BirthdayPagesInit
    /\ OtherInit

NextInput ==
    \/ fetchFriends(Viewer)
    \/ resolveEdges(Viewer)
    \/ fetchDashboardData
    \/ fetchBirthdays
    \/ fetchTodaysBirthdays

SpecInput == InitInput /\ [][NextInput]_vars

(***************************************************************************)
(* Properties of the resolution of invalid rows (SpecInput)                *)
(***************************************************************************)
Involves(e, v) == e.requester_id = v \/ e.addressee_id = v

MalformedRows(rows) ==
    { i \in 1 .. Len(rows) : FriendProfile(Viewer, rows[i]) = NULL }

\* C16: no page takes its success path over a row whose counterpart record
\* is missing: the row is reported, never dropped from a result shown as
\* complete.
C16_MalformedEdgeReported ==
    /\ Viewer \in resolved => MalformedRows(fetched[Viewer]) = {}
    /\ "dashboard" \in loaded => MalformedRows(dashRows) = {}
    /\ "calendar" \in loaded => MalformedRows(AcceptedFriendshipsOf(Viewer)) = {}
    /\ "feed" \in loaded => MalformedRows(AcceptedFriendshipsOf(Viewer)) = {}

(***************************************************************************)
(* Properties of what a viewer receives of other people (SpecFriends)      *)
(***************************************************************************)
\* users a and b are confirmed friends in the store
AreFriends(a, b) ==
    \E k \in 1 .. Len(friendships) :
       Connects(friendships[k], a, b) /\ friendships[k].status = "accepted"

\* C21: the client state of a viewer (confirmed list, pending list, search
\* results) holds the birthday of another user only if an accepted edge
\* connects the two.
C21_BirthdayOnlyOfFriends ==
    \A u \in FUsers :
       \A x \in Elements(friends[u]) \cup Elements(pendingRequests[u])
                   \cup Elements(searchResults[u]) :
          x.birthday # NULL => AreFriends(u, x.id)

(***************************************************************************)
(* Properties of the Dashboard's stat cards (SpecUpcoming)                 *)
(***************************************************************************)
\* the confirmed friends whose next birthday is at most n days after today
FriendsWithBirthdayWithin(n) ==
    { u \in FriendsWithBirthday :
        FirstOccurrenceDay(birthdayOf[u]) - LocalDay(now) <= n }

\* C22: the number on the 'Upcoming Birthdays' card (upcomingBirthdays.length)
\* is the number of confirmed friends whose next birthday is at most 30 days
\* after today.
C22_CardCountsNext30Days ==
    "dashboard" \in loaded =>
       Len(upcomingBirthdays) = Cardinality(FriendsWithBirthdayWithin(30))

(***************************************************************************)
(* Specification of AuthProvider: the initial session, auth state change   *)
(* events for either of two users or for none, and the responses of        *)
(* fetchProfile, in any order                                              *)
(***************************************************************************)
InitAuth ==
    /\ friendships = << >>
    /\ birthdayOf = [u \in AuthUsers |-> NULL]
    /\ tz = UTC
    /\ now = DayNum(2023, 3, 10) * TicksPerDay
    /\ FriendsPageInit
    /\ BirthdayPagesInit
    /\ OtherInit

NextAuth ==
    \/ \E s \in SessionUsers : getSessionResolved(s)
    \/ \E s \in SessionUsers : onAuthStateChange(s)
    \/ \E f \in ProfileFetchChoices : fetchProfileReturns(f)

SpecAuth == InitAuth /\ [][NextAuth]_vars

\* C23: the profile is null or the profile of the current user: no user, no
\* profile; a profile, then that of the user.
C23_ProfileOfCurrentUser ==
    /\ user = NULL => profile = NULL
    /\ profile # NULL /\ user # NULL => profile.id = user.id

(***************************************************************************)
(* Specification of the data pages under AuthProvider: the pages are       *)
(* mounted, their effects run after every change of user or profile, and   *)
(* every request eventually returns                                        *)
(***************************************************************************)
\* one user signs in and out
PageSessions == { [id |-> 1], NULL }

NextPages ==
    \/ \E s \in PageSessions : getSessionResolved(s)
    \/ \E s \in PageSessions : onAuthStateChange(s)
    \/ \E f \in ProfileFetchChoices : fetchProfileReturns(f)
    \/ \E p \in Pages : pageEffect(p)
    \/ \E p \in Pages : pageFetchReturns(p)

SpecPages ==
    /\ InitAuth
    /\ [][NextPages]_vars
    /\ WF_vars(\E s \in PageSessions : getSessionResolved(s))
    /\ \A f \in ProfileFetchChoices : WF_vars(fetchProfileReturns(f))
    /\ \A p \in Pages : WF_vars(pageEffect(p)) /\ WF_vars(pageFetchReturns(p))

\* C24: if from some point on a user is authenticated and the auth loading
\* flag is false, every data page eventually leaves its loading state.
C24_PagesLeaveLoading ==
    \A p \in Pages :
       <>[](user # NULL /\ ~authLoading) => <>(~pageLoading[p])

(***************************************************************************)
(* Specification of the search box: the viewer's page has loaded, the      *)
(* viewer edits the query, and the responses arrive in any order           *)
(***************************************************************************)
NextSearch ==
    \/ fetchFriends(Viewer)
    \/ \E q \in SearchQueries : typeQuery(q)
    \/ \E q \in SearchQueries : searchResponse(q)

SpecSearch == InitFriends /\ [][NextSearch]_vars

\* C25: once no search request is in flight, the displayed results are empty
\* if the current query has at most 2 characters, and otherwise are those of
\* the response to the current query.
C25_ResultsOfCurrentQuery ==
    searchInFlight = {} =>
       IF Len(searchQuery[Viewer]) <= 2
       THEN searchResults[Viewer] = << >>
       ELSE resultsFor \in { << >>, searchQuery[Viewer] }

(***************************************************************************)
(* Properties of the status of an edge (SpecFriends)                       *)
(***************************************************************************)
\* C26: an edge whose stored status is accepted or declined never changes
\* status again: respondToFriendRequest changes only a pending edge.
C26_AnsweredEdgeIsFinal ==
    [][\A k \in 1 .. Len(friendships) :
          friendships[k].status # "pending" =>
             friendships'[k].status = friendships[k].status]_vars

(***************************************************************************)
(* Specification of the create dialog of the Events page: the viewer edits *)
(* the form and submits it; either insert may fail                         *)
(***************************************************************************)
NextEvents ==
    \/ \E form \in EventForms : setNewEvent(form)
    \/ createEvent

SpecEvents == InitAuth /\ [][NextEvents]_vars

\* C27: createEvent is all-or-nothing.  With an empty title or date nothing
\* is written; otherwise either success is reported and the event and one
\* pending invitation per selected friend are stored, or an error is reported
\* and neither the event nor any invitation is stored.
C27_CreateEventAllOrNothing ==
    [][createEvent =>
         IF newEvent.title = EmptyText \/ newEvent.date = EmptyText
         THEN events' = events /\ eventInvitations' = eventInvitations
         ELSE \/ /\ eventToast' = ToastEventCreated
                 /\ Len(events') = Len(events) + 1
                 /\ \A friendId \in newEvent.invited_friends :
                       \E inv \in eventInvitations' \ eventInvitations :
                          /\ inv.event_id = events'[Len(events')].id
                          /\ inv.user_id = friendId
                          /\ inv.status = "pending"
              \/ /\ eventToast' = ToastEventFailed
                 /\ events' = events
                 /\ eventInvitations' = eventInvitations]_vars

(***************************************************************************)
(* Specification of the greeting cards of the Feed: the viewer types in    *)
(* the cards of two friends and sends; the inserts return in any order     *)
(***************************************************************************)
NextGreetings ==
    \/ \E f \in GreetFriends, text \in Drafts : setGreetingMessages(f, text)
    \/ \E f \in GreetFriends : sendBirthdayGreeting(f)
    \/ \E f \in GreetFriends : greetingInsertReturns(f)

SpecGreetings == InitAuth /\ [][NextGreetings]_vars

\* C28: sendBirthdayGreeting for friend f inserts nothing when f's draft is
\* empty or blank, and changes no draft but f's: cleared on success, kept on
\* failure, the drafts of the other friends as they are.
C28_OnlyOwnDraftChanges ==
    [][\A f \in GreetFriends :
          /\ sendBirthdayGreeting(f) =>
                /\ greetingMessages' = greetingMessages
                /\ Trim(greetingMessages[f]) = EmptyText => greetInFlight' = greetInFlight
          /\ greetingInsertReturns(f) =>
                /\ \A g \in GreetFriends \ {f} :
                      greetingMessages'[g] = greetingMessages[g]
                /\ greetingMessages'[f] =
                      IF greetToast' = ToastGreetingSent THEN EmptyText
                      ELSE greetingMessages[f]]_vars

(***************************************************************************)
(* Specification of the Profile form: every stored birthday and timezone;  *)
(* the viewer opens the page, picks dates and saves                        *)
(***************************************************************************)
PickDates == { Date(1990, 1, 1), Date(1990, 3, 10), Date(1992, 2, 29),
               Date(1990, 11, 4), Date(1991, 12, 31) }

InitProfile ==
    /\ friendships = << >>
    /\ birthdayOf \in [AuthUsers -> PickDates \cup {NULL}]
    /\ birthdayOf[2] = NULL
    /\ tz \in Zones
    /\ now = DayNum(2023, 3, 10) * TicksPerDay
    /\ FriendsPageInit
    /\ BirthdayPagesInit
    /\ OtherInit

NextProfile ==
    \/ mountProfile
    \/ \E day \in PickDates : onSelect(day)
    \/ onSubmit

SpecProfile == InitProfile /\ [][NextProfile]_vars

\* C29: saving a birthday is a round trip.  A save stores the date picked; a
\* save without a pick leaves the stored date as it is; opening the page
\* shows the stored date in the form.
C29_BirthdayRoundTrip ==
    [][/\ onSubmit /\ profileToast' = ToastProfileUpdated /\ pickedDate # NULL =>
             birthdayOf'[Viewer] = pickedDate
       /\ onSubmit /\ pickedDate = NULL /\ formBirthday # NULL =>
             birthdayOf'[Viewer] = birthdayOf[Viewer]
       /\ mountProfile /\ birthdayOf[Viewer] # NULL =>
             FormatPPP(formBirthday') = birthdayOf[Viewer]]_vars

====
